---- MODULE Spec2Model ----
(***************************************************************************)
(* Chat request orchestration (ChatClient), its chat state store           *)
(* (ReactStateManager), the serial job executor, the incremental message   *)
(* merger and the resubmission policy.                                     *)
(*                                                                         *)
(* The orchestrator and the store are translated from chat-client and      *)
(* chat-store.  The job executor, the merger (processUIMessageStream),     *)
(* the resubmission policy and updateToolCallResult are imported by the    *)
(* orchestrator but their bodies are not part of the sources; they follow  *)
(* the written specification (sections 4.1, 4.2 and 4.4).                  *)
(*                                                                         *)
(* One step of the model is one macrotask of the JavaScript event loop: a  *)
(* public call, the arrival of one transport result, or the arrival of one *)
(* stream event, together with all the synchronous and microtask work it   *)
(* causes (Pump).                                                          *)
(***************************************************************************)
EXTENDS Integers, Sequences, FiniteSets, TLC

(* ---------------------------- bounds ---------------------------------- *)
MaxCycles == 2        \* request cycles (triggerRequest calls) per behaviour
MaxEvents == 2        \* content events the transport yields per behaviour
MaxToolResults == 1   \* addToolResult calls per behaviour
MaxStepsBound == 2    \* maxSteps is drawn from 1..MaxStepsBound
MaxDeltas == 4        \* text-delta events of the end-to-end scenario
MaxStopCycles == 1    \* request cycles where callers wait and may stop
MaxPolicySteps == 2   \* tool invocation steps the Resubmission Policy is called with
MaxPolicyCount == 2   \* message counts the Resubmission Policy is called with
MaxQueuedResults == 2 \* addToolResult calls where the executor is under load

DefaultMaxSteps == 1

ToolCallIds == {"t1", "t2"}
Deltas == {<<"a">>}
ScenarioDeltas == {<<"a">>, <<"b", "c">>}

NoError == "undefined"
NoResponse == 0

VARIABLES
  messages,         \* ChatState.messages
  status,           \* ChatState.status
  error,            \* ChatState.error
  activeResponse,   \* ChatState.activeResponse: the request cycle whose object is stored, or NoResponse
  cycles,           \* one record per triggerRequest call: its locals and its position
  queue,            \* SerialJobExecutor: jobs submitted and not yet started
  running,          \* SerialJobExecutor: the job that started and awaits its request cycle, or 0
  nextId,           \* generateId
  maxSteps,         \* ChatClient.maxSteps
  scope,            \* what the callers and the transport of this specification do
  calls,            \* transport.submitMessages calls since the caller's last request
  jobs,             \* the executor's jobs so far: how many, which started, waited, failed
  toolSubmitted,    \* toolCallIds in the order addToolResult was called
  toolApplied,      \* toolCallIds in the order their results were patched in
  lastOp,           \* the operation of the last step
  sent,             \* concatenation of the text deltas the transport yielded (end-to-end scenario)
  stopText,         \* the published text at the time stopStream aborted a streaming request
  policy            \* one call of the Resubmission Policy: its arguments and its result

vars == <<messages, status, error, activeResponse, cycles, queue, running,
          nextId, maxSteps, scope, calls, jobs, toolSubmitted, toolApplied,
          lastOp, sent, stopText, policy>>

(* ------------------------------ data ---------------------------------- *)
Max(a, b) == IF a >= b THEN a ELSE b

TextPart(t) ==
  [type |-> "text", text |-> t, toolCallId |-> "", state |-> "", step |-> 0, args |-> 0]

ToolPart(id, st, step) ==
  [type |-> "tool-invocation", text |-> <<>>, toolCallId |-> id, state |-> st,
   step |-> step, args |-> 0]

StepStartPart ==
  [type |-> "step-start", text |-> <<>>, toolCallId |-> "", state |-> "", step |-> 0, args |-> 0]

\* obj is the identity of the JavaScript object: 0 for a message built by a
\* caller, c for the draft object of request cycle c.
Message(id, role, parts, obj) == [id |-> id, role |-> role, parts |-> parts, obj |-> obj]

NoMessage == Message(0, "none", <<>>, 0)

Terminal(part) == part.state \in {"output-available", "output-error"}

IsTool(part) == part.type = "tool-invocation"

getToolInvocations(m) == SelectSeq(m.parts, IsTool)

RECURSIVE extractMaxToolInvocationStep(_)
extractMaxToolInvocationStep(tis) ==
  IF tis = <<>> THEN 0
  ELSE Max(Head(tis).step, extractMaxToolInvocationStep(Tail(tis)))

isAssistantMessageWithCompletedToolCalls(m) ==
  /\ m.role = "assistant"
  /\ getToolInvocations(m) # <<>>
  /\ \A i \in 1..Len(m.parts) : IsTool(m.parts[i]) => Terminal(m.parts[i])

shouldResubmitMessages_noMax(originalMaxToolInvocationStep, originalMessageCount, maxSt, msgs) ==
  LET last == IF msgs = <<>> THEN NoMessage ELSE msgs[Len(msgs)]
      newStep == extractMaxToolInvocationStep(getToolInvocations(last))
  IN /\ msgs # <<>>
     /\ isAssistantMessageWithCompletedToolCalls(last)
     /\ newStep > originalMaxToolInvocationStep

shouldResubmitMessages_noProgress(originalMaxToolInvocationStep, originalMessageCount, maxSt, msgs) ==
  LET last == IF msgs = <<>> THEN NoMessage ELSE msgs[Len(msgs)]
      newStep == extractMaxToolInvocationStep(getToolInvocations(last))
  IN /\ msgs # <<>>
     /\ isAssistantMessageWithCompletedToolCalls(last)
     /\ newStep < maxSt

\* Resubmission Policy (section 4.4): all four conditions.
shouldResubmitMessages(originalMaxToolInvocationStep, originalMessageCount, maxSt, msgs) ==
  LET last == IF msgs = <<>> THEN NoMessage ELSE msgs[Len(msgs)]
      newStep == extractMaxToolInvocationStep(getToolInvocations(last))
  IN /\ msgs # <<>>
     /\ isAssistantMessageWithCompletedToolCalls(last)
     /\ newStep > originalMaxToolInvocationStep
     /\ newStep < maxSt

(* ---------------------- the program state ------------------------------ *)
\* The variables as one record, so that the handlers can be composed the way
\* the code calls them.  ok turns false when a bound of the model is exceeded.
St ==
  [messages |-> messages, status |-> status, error |-> error,
   activeResponse |-> activeResponse, cycles |-> cycles, queue |-> queue,
   running |-> running, nextId |-> nextId, calls |-> calls, jobs |-> jobs,
   toolSubmitted |-> toolSubmitted, toolApplied |-> toolApplied, ok |-> TRUE]

lastMessage(s) ==
  IF s.messages = <<>> THEN NoMessage ELSE s.messages[Len(s.messages)]

(* ------------------ ChatState (ReactStateManager) ---------------------- *)
setStatus_keepsError(s, st, err) ==
  [s EXCEPT !.status = st, !.error = IF err = NoError THEN @ ELSE err]

setStatus(s, st, err) == [s EXCEPT !.status = st, !.error = err]

setActiveResponse(s, ar) == [s EXCEPT !.activeResponse = ar]

setMessages(s, msgs) == [s EXCEPT !.messages = msgs]

pushMessage(s, m) == [s EXCEPT !.messages = Append(@, m)]

popMessage(s) == [s EXCEPT !.messages = SubSeq(@, 1, Len(@) - 1)]

replaceMessage_atFirst(s, index, m) ==
  [s EXCEPT !.messages = <<m>> \o SubSeq(@, 2, Len(@))]

\* index counts from 1 here (the code's index + 1)
replaceMessage(s, index, m) ==
  [s EXCEPT !.messages =
     SubSeq(@, 1, index - 1) \o <<m>> \o SubSeq(@, index + 1, Len(@))]

(* ---------------------- StreamingUIMessageState ------------------------ *)
RECURSIVE IndexOfTool(_, _, _)
IndexOfTool(parts, id, i) ==
  IF i = 0 THEN 0
  ELSE IF IsTool(parts[i]) /\ parts[i].toolCallId = id THEN i
  ELSE IndexOfTool(parts, id, i - 1)

createStreamingUIMessageState_emptyIndex(last, newMessageId, c) ==
  IF last.role = "assistant"
  THEN [message |-> Message(last.id, "assistant", last.parts, c),
        toolIdx |-> [id \in ToolCallIds |-> 0],
        openText |-> 0,
        step |-> extractMaxToolInvocationStep(getToolInvocations(last))]
  ELSE [message |-> Message(newMessageId, "assistant", <<>>, c),
        toolIdx |-> [id \in ToolCallIds |-> 0],
        openText |-> 0,
        step |-> 0]

\* A fresh assistant draft with the new id, or a copy of the last message when
\* that message is an assistant message the response continues.
createStreamingUIMessageState(last, newMessageId, c) ==
  IF last.role = "assistant"
  THEN [message |-> Message(last.id, "assistant", last.parts, c),
        toolIdx |-> [id \in ToolCallIds |-> IndexOfTool(last.parts, id, Len(last.parts))],
        openText |-> 0,
        step |-> extractMaxToolInvocationStep(getToolInvocations(last))]
  ELSE [message |-> Message(newMessageId, "assistant", <<>>, c),
        toolIdx |-> [id \in ToolCallIds |-> 0],
        openText |-> 0,
        step |-> 0]

(* ---------------- Incremental Message Merger (section 4.2) ------------- *)
Ev(type, delta, id) == [type |-> type, delta |-> delta, toolCallId |-> id]

NoEvent == Ev("none", <<>>, "")

EventsOver(deltas, ids) ==
  {Ev("text-delta", d, "") : d \in deltas}
  \cup {Ev(ty, <<>>, id) :
          ty \in {"tool-input-start", "tool-input-delta", "tool-input-available",
                  "tool-output-available", "tool-output-error"},
          id \in ids}
  \cup {Ev("start-step", <<>>, ""), Ev("finish", <<>>, ""), Ev("error", <<>>, "")}

Events == EventsOver(ScenarioDeltas, ToolCallIds)

TerminalEvents == {Ev("finish", <<>>, ""), Ev("error", <<>>, "")}

Merged(st, fail, finish, write) ==
  [state |-> st, fail |-> fail, finish |-> finish, write |-> write]

AppendPart(st, part) == [st EXCEPT !.message.parts = Append(@, part)]

MergeTextDelta(st, d) ==
  IF st.openText # 0
  THEN [st EXCEPT !.message.parts[st.openText].text = @ \o d]
  ELSE [AppendPart(st, TextPart(d)) EXCEPT !.openText = Len(st.message.parts) + 1]

MergeToolInputStart(st, id) ==
  [AppendPart(st, ToolPart(id, "input-streaming", st.step)) EXCEPT
     !.toolIdx[id] = Len(st.message.parts) + 1, !.openText = 0]

MergeToolOutput(st, id, terminal) ==
  IF st.toolIdx[id] # 0
  THEN [st EXCEPT !.message.parts[st.toolIdx[id]].state = terminal]
  ELSE [AppendPart(st, ToolPart(id, terminal, st.step)) EXCEPT
          !.toolIdx[id] = Len(st.message.parts) + 1, !.openText = 0]

MergeStartStep(st) ==
  [AppendPart(st, StepStartPart) EXCEPT !.step = @ + 1, !.openText = 0]

\* One protocol event folded into the accumulator: the new accumulator, the
\* failure (if any), whether the sequence ended, whether a publish follows.
Merge(st, ev) ==
  CASE ev.type = "text-delta" ->
         Merged(MergeTextDelta(st, ev.delta), NoError, FALSE, TRUE)
    [] ev.type = "tool-input-start" ->
         IF st.toolIdx[ev.toolCallId] # 0
         THEN Merged(st, "ProtocolError", FALSE, FALSE)
         ELSE Merged(MergeToolInputStart(st, ev.toolCallId), NoError, FALSE, TRUE)
    [] ev.type = "tool-input-delta" ->
         IF st.toolIdx[ev.toolCallId] = 0
         THEN Merged(st, "ProtocolError", FALSE, FALSE)
         ELSE Merged([st EXCEPT !.message.parts[st.toolIdx[ev.toolCallId]].args = @ + 1],
                     NoError, FALSE, TRUE)
    [] ev.type = "tool-input-available" ->
         IF st.toolIdx[ev.toolCallId] = 0
         THEN Merged(st, "ProtocolError", FALSE, FALSE)
         ELSE Merged([st EXCEPT !.message.parts[st.toolIdx[ev.toolCallId]].state =
                                   "input-available"],
                     NoError, FALSE, TRUE)
    [] ev.type = "tool-output-available" ->
         Merged(MergeToolOutput(st, ev.toolCallId, "output-available"), NoError, FALSE, TRUE)
    [] ev.type = "tool-output-error" ->
         Merged(MergeToolOutput(st, ev.toolCallId, "output-error"), NoError, FALSE, TRUE)
    [] ev.type = "start-step" ->
         Merged(MergeStartStep(st), NoError, FALSE, TRUE)
    [] ev.type = "finish" -> Merged(st, NoError, TRUE, FALSE)
    [] OTHER -> Merged(st, "StreamError", FALSE, FALSE)

(* ------------------------ updateToolCallResult -------------------------- *)
\* Patches the result into the matching tool invocation of the last message,
\* in place.
PatchParts(parts, id) ==
  [i \in 1..Len(parts) |->
     IF IsTool(parts[i]) /\ parts[i].toolCallId = id
     THEN [parts[i] EXCEPT !.state = "output-available"]
     ELSE parts[i]]

\* The store holds the objects it was given ([...messages], concat): a message
\* object mutated in place changes wherever that object is referenced, in the
\* list and in the accumulator whose draft it is.
SyncObject(s, obj, m) ==
  IF obj = 0 THEN s
  ELSE [s EXCEPT
          !.messages = [i \in 1..Len(@) |-> IF @[i].obj = obj THEN m ELSE @[i]],
          !.cycles[obj].state.message = m]

updateToolCallResult(s, id) ==
  IF s.messages = <<>> THEN s
  ELSE LET n == Len(s.messages)
           m == [s.messages[n] EXCEPT !.parts = PatchParts(@, id)]
       IN SyncObject([s EXCEPT !.messages[n] = m], m.obj, m)

(* --------------------- ChatClient.triggerRequest ------------------------ *)
\* The synchronous head of triggerRequest (lines 270-295): status submitted,
\* the locals, the new active response, the transport call.  inJob is the
\* addToolResult job that awaits this request (0 when none does).
\* callbacks: whether the caller passed onFinish and onError (the public
\* operations forward theirs, addToolResult passes requestType alone, the
\* recursion passes on what it was given); reports: the callbacks invoked.
triggerRequest(s, requestType, inJob, origin, parent) ==
  LET c == Len(s.cycles) + 1
      s1 == setStatus(s, "submitted", NoError)
      messageCount == Len(s1.messages)
      maxStep == extractMaxToolInvocationStep(getToolInvocations(lastMessage(s1)))
      cyc == [pc |-> "awaitTransport",
              requestType |-> requestType,
              messageCount |-> messageCount,
              maxStep |-> maxStep,
              state |-> createStreamingUIMessageState(lastMessage(s1), s1.nextId, c),
              abortController |-> "armed",
              aborted |-> FALSE,
              nEvents |-> 0,
              inJob |-> inJob,
              origin |-> origin,
              parent |-> parent,
              pending |-> NoError,
              outcome |-> "pending",
              callbacks |-> IF origin = "recursion" THEN s.cycles[parent].callbacks
                            ELSE origin # "toolResult",
              reports |-> <<>>]
      s2 == [s1 EXCEPT !.cycles = Append(@, cyc),
                       !.nextId = @ + 1,
                       !.calls = IF requestType = "generate" THEN @ + 1 ELSE @,
                       !.ok = @ /\ c <= scope.maxCycles]
  IN setActiveResponse(s2, c)

write_alwaysPush(s, c) ==
  pushMessage(setStatus(s, "streaming", NoError), s.cycles[c].state.message)

\* The write callback handed to the merger (lines 310-326).
write(s, c) ==
  LET s1 == setStatus(s, "streaming", NoError)
      draft == s1.cycles[c].state.message
      replaceLastMessage ==
        /\ s1.messages # <<>>
        /\ draft.id = lastMessage(s1).id
  IN IF replaceLastMessage
     THEN replaceMessage(s1, Len(s1.messages), draft)
     ELSE pushMessage(s1, draft)

(* ------------------ Serial Job Executor (section 4.1) ------------------- *)
Job(kind, c, ev, id) ==
  [kind |-> kind, seq |-> 0, cyc |-> c, ev |-> ev, toolCallId |-> id]

QueuedSeqs(q) == {q[i].seq : i \in 1..Len(q)}

\* jobs: n run() calls so far; executing: started and not completed; started;
\* waited: found the executor busy when submitted; concurrent: started while
\* another job was executing; early: started before an earlier submitted job
\* completed; failed: the failed jobs, with the request cycle that received
\* the failure and the jobs queued behind at that time.
NoJobs ==
  [n |-> 0, executing |-> {}, started |-> {}, waited |-> {}, concurrent |-> {},
   early |-> {}, failed |-> {}]

Enqueue(s, job, atEnd) ==
  LET j == [job EXCEPT !.seq = s.jobs.n + 1]
  IN [s EXCEPT
        !.jobs.n = @ + 1,
        !.jobs.waited = IF s.running # 0 \/ s.queue # <<>> THEN @ \cup {j.seq} ELSE @,
        !.queue = IF atEnd THEN Append(@, j) ELSE <<j>> \o @]

run_lifo(s, job) == Enqueue(s, job, FALSE)

\* run(job): the job joins the end of the queue; Pump starts it when no job
\* is executing.
run(s, job) == Enqueue(s, job, TRUE)

StartJob(s, seq) ==
  [s EXCEPT
     !.jobs.started = @ \cup {seq},
     !.jobs.concurrent = IF s.jobs.executing # {} THEN @ \cup {seq} ELSE @,
     !.jobs.early =
        IF \E j \in (QueuedSeqs(s.queue) \cup s.jobs.executing) : j < seq
        THEN @ \cup {seq} ELSE @,
     !.jobs.executing = @ \cup {seq}]

FinishJob(s, seq) == [s EXCEPT !.jobs.executing = @ \ {seq}]

Failure(job, c, s) == [job |-> job.seq, caller |-> c, behind |-> QueuedSeqs(s.queue)]

RejectAndDrop(s, job, c, fail) ==
  [s EXCEPT !.cycles[c].pc = "settling",
            !.cycles[c].pending = fail,
            !.jobs.failed = @ \cup {Failure(job, c, s)},
            !.queue = <<>>]

\* A failing job rejects the handle run() returned for it, nothing else: the
\* request cycle that awaits the handle sees the failure, the queue stays.
Reject(s, job, c, fail) ==
  [s EXCEPT !.cycles[c].pc = "settling",
            !.cycles[c].pending = fail,
            !.jobs.failed = @ \cup {Failure(job, c, s)}]

\* The job of one stream event (processUIMessageStream's transform body run
\* with { state, write }): merge, publish, and hand the outcome back to the
\* request cycle that awaits it.
ExecChunk(s, job) ==
  LET c == job.cyc
      r == Merge(s.cycles[c].state, job.ev)
  IN IF r.fail # NoError
     THEN Reject(s, job, c, r.fail)
     ELSE LET s1 == [s EXCEPT !.cycles[c].state = r.state]
              s2 == SyncObject(s1, c, r.state.message)
              s3 == IF r.write THEN write(s2, c) ELSE s2
          IN IF r.finish
             THEN [s3 EXCEPT !.cycles[c].pc = "settling",
                             !.cycles[c].pending = "success"]
             ELSE [s3 EXCEPT !.cycles[c].pc = "reading"]

ExecTool_noUpdate(s, job) ==
  LET s2 == setMessages(s, s.messages)
      s3 == [s2 EXCEPT !.toolApplied = Append(@, job.toolCallId)]
  IN IF s3.status \in {"submitted", "streaming"}
     THEN FinishJob(s3, job.seq)
     ELSE IF isAssistantMessageWithCompletedToolCalls(lastMessage(s3))
          THEN [triggerRequest(s3, "generate", job.seq, "toolResult", 0)
                  EXCEPT !.running = job.seq]
          ELSE FinishJob(s3, job.seq)

\* The job of addToolResult (lines 216-244).  The job returns at once, or
\* awaits the request it triggers and stays the executing job until then.
ExecTool(s, job) ==
  LET s1 == updateToolCallResult(s, job.toolCallId)
      s2 == setMessages(s1, s1.messages)
      s3 == [s2 EXCEPT !.toolApplied = Append(@, job.toolCallId)]
  IN IF s3.status \in {"submitted", "streaming"}
     THEN FinishJob(s3, job.seq)
     ELSE IF isAssistantMessageWithCompletedToolCalls(lastMessage(s3))
          THEN [triggerRequest(s3, "generate", job.seq, "toolResult", 0)
                  EXCEPT !.running = job.seq]
          ELSE FinishJob(s3, job.seq)

ExecJob(s, job) ==
  IF job.kind = "chunk"
  THEN FinishJob(ExecChunk(s, job), job.seq)
  ELSE ExecTool(s, job)

\* processQueue: start the job at the head of the queue.
ExecHead(s) ==
  LET job == Head(s.queue)
      s1 == StartJob([s EXCEPT !.queue = Tail(@)], job.seq)
  IN ExecJob(s1, job)

(* ------------- triggerRequest: completion (lines 343-381) --------------- *)
\* What follows consumeStream: onFinish and ready; or the catch block; the
\* finally block; then the resubmission check, which the AbortError branch
\* alone skips by returning.
CatchBlock_noAbortCase(s, err) == setStatus(s, "error", err)

CatchBlock(s, err) ==
  IF err = "AbortError"
  THEN setStatus(s, "ready", NoError)
  ELSE setStatus(s, "error", err)

Outcome(pending) ==
  IF pending = "success" THEN "success"
  ELSE IF pending = "AbortError" THEN "abort"
  ELSE "error"

Returns_never(pending) == FALSE

Returns(pending) == pending = "AbortError"

\* onFinish?.(...) at line 343; onError at lines 353-355, after the AbortError
\* branch returned
Reports(cyc) ==
  IF ~cyc.callbacks THEN <<>>
  ELSE IF cyc.pending = "success" THEN <<"onFinish">>
  ELSE IF cyc.pending = "AbortError" THEN <<>>
  ELSE <<"onError">>

Settle(s, c) ==
  LET cyc == s.cycles[c]
      s1 == IF cyc.pending = "success"
            THEN setStatus(s, "ready", NoError)
            ELSE CatchBlock(s, cyc.pending)
      s2 == setActiveResponse(s1, NoResponse)
      s3 == [s2 EXCEPT !.cycles[c].pc = "done",
                       !.cycles[c].outcome = Outcome(cyc.pending),
                       !.cycles[c].reports = Reports(cyc)]
  IN IF /\ ~Returns(cyc.pending)
        /\ shouldResubmitMessages(cyc.maxStep, cyc.messageCount, maxSteps, s3.messages)
     THEN triggerRequest(s3, cyc.requestType, cyc.inJob, "recursion", c)
     ELSE IF cyc.inJob # 0
          THEN FinishJob([s3 EXCEPT !.running = 0], cyc.inJob)
          ELSE s3

Settling(s) == {c \in 1..Len(s.cycles) : s.cycles[c].pc = "settling"}

MinOf(S) == CHOOSE x \in S : \A y \in S : x <= y

\* Everything one macrotask causes: the executor starts queued jobs while no
\* job is executing, and request cycles whose stream ended run to their end.
RECURSIVE Pump(_)
PumpStep(s) ==
  IF s.running = 0 /\ s.queue # <<>> THEN Pump(ExecHead(s))
  ELSE IF Settling(s) # {} THEN Pump(Settle(s, MinOf(Settling(s))))
  ELSE s

\* PumpStep of the value of s0 (s0 is evaluated once)
Pump(s0) == CHOOSE r \in {PumpStep(s) : s \in {s0}} : TRUE

runUpdateMessageJob_direct(s, c, ev) ==
  LET job == [Job("chunk", c, ev, "") EXCEPT !.seq = s.jobs.n + 1]
  IN ExecJob(StartJob([s EXCEPT !.jobs.n = @ + 1], job.seq), job)

\* runUpdateMessageJob (lines 297-328): the job goes through the executor.
runUpdateMessageJob(s, c, ev) ==
  run([s EXCEPT !.cycles[c].pc = "queued"], Job("chunk", c, ev, ""))

(* ------------------------------ steps ----------------------------------- *)
NoStop == [set |-> FALSE, cyc |-> 0, ncycles |-> 0, id |-> 0, parts |-> <<>>]

\* The step's result becomes the next state (s0 is evaluated once).
Commit(s0, op, newSent, newStop) ==
  \E s \in {s0} :
  /\ s.ok
  /\ messages' = s.messages
  /\ status' = s.status
  /\ error' = s.error
  /\ activeResponse' = s.activeResponse
  /\ cycles' = s.cycles
  /\ queue' = s.queue
  /\ running' = s.running
  /\ nextId' = s.nextId
  /\ calls' = s.calls
  /\ jobs' = s.jobs
  /\ toolSubmitted' = s.toolSubmitted
  /\ toolApplied' = s.toolApplied
  /\ lastOp' = IF scope.trace THEN op ELSE lastOp
  /\ sent' = newSent
  /\ stopText' = newStop
  /\ UNCHANGED <<maxSteps, scope, policy>>

UserMessage(id) == Message(id, "user", <<TextPart(<<"hi">>)>>, 0)

\* submitMessage (lines 131-159)
submitMessage(s) ==
  LET s1 == pushMessage(s, UserMessage(s.nextId))
      s2 == [s1 EXCEPT !.nextId = @ + 1, !.calls = 0]
  IN triggerRequest(s2, "generate", 0, "submit", 0)

resubmitLastUserMessage_noPop(s) ==
  IF s.messages = <<>> THEN s
  ELSE triggerRequest([s EXCEPT !.calls = 0], "generate", 0, "resubmit", 0)

\* resubmitLastUserMessage (lines 161-187)
resubmitLastUserMessage(s) ==
  IF s.messages = <<>> THEN s
  ELSE LET s1 == IF lastMessage(s).role = "assistant" THEN popMessage(s) ELSE s
       IN triggerRequest([s1 EXCEPT !.calls = 0], "generate", 0, "resubmit", 0)

resumeStream_appends(s) ==
  triggerRequest([pushMessage(s, UserMessage(s.nextId)) EXCEPT !.nextId = @ + 1, !.calls = 0],
                 "resume", 0, "resume", 0)

\* resumeStream (lines 189-207)
resumeStream(s) ==
  triggerRequest([s EXCEPT !.calls = 0], "resume", 0, "resume", 0)

\* removeAssistantResponse (lines 119-129): throws, or pops
removeAssistantResponseThrows(s) ==
  s.messages = <<>> \/ lastMessage(s).role # "assistant"

removeAssistantResponse_noGuard(s) ==
  IF s.messages = <<>> THEN s ELSE popMessage(s)

removeAssistantResponse(s) ==
  IF removeAssistantResponseThrows(s) THEN s ELSE popMessage(s)

\* addToolResult (lines 209-245)
addToolResult(s, id) ==
  run([s EXCEPT !.toolSubmitted = Append(@, id)], Job("tool", 0, NoEvent, id))

stopStream_setsReady(s) == setStatus(s, "ready", NoError)

\* stopStream (lines 247-255)
stopStream(s) ==
  IF s.status # "streaming" /\ s.status # "submitted" THEN s
  ELSE IF /\ s.activeResponse # NoResponse
          /\ s.cycles[s.activeResponse].abortController = "armed"
       THEN [s EXCEPT !.cycles[s.activeResponse].aborted = TRUE,
                      !.cycles[s.activeResponse].abortController = "undefined"]
       ELSE s

Idle == \A c \in 1..Len(cycles) : cycles[c].pc = "done"

\* A caller may start a request while another is in flight (the code has no
\* guard); a specification may also assume callers that wait.
CanStart ==
  /\ Len(cycles) < scope.maxCycles
  /\ scope.overlap \/ Idle

SubmitMessage ==
  /\ CanStart
  /\ Commit(Pump(submitMessage(St)), "submitMessage", sent, NoStop)

ResubmitLastUserMessage ==
  /\ CanStart
  /\ Commit(Pump(resubmitLastUserMessage(St)), "resubmitLastUserMessage", sent, NoStop)

ResumeStream ==
  /\ CanStart
  /\ Commit(Pump(resumeStream(St)), "resumeStream", sent, NoStop)

RemoveAssistantResponse ==
  Commit(Pump(removeAssistantResponse(St)),
         IF removeAssistantResponseThrows(St)
         THEN "removeAssistantResponse-threw" ELSE "removeAssistantResponse",
         sent, NoStop)

AddToolResult(id) ==
  /\ id \in scope.toolIds
  /\ Len(toolSubmitted) < scope.maxToolResults
  /\ Commit(Pump(addToolResult(St, id)), "addToolResult", sent, stopText)

\* The text the stopped request had published, kept to compare with later.
StopRecord ==
  IF /\ status = "streaming"
     /\ activeResponse # NoResponse
     /\ cycles[activeResponse].abortController = "armed"
     /\ messages # <<>>
     /\ lastMessage(St).obj = activeResponse
     /\ \E i \in 1..Len(lastMessage(St).parts) :
          /\ lastMessage(St).parts[i].type = "text"
          /\ lastMessage(St).parts[i].text # <<>>
  THEN [set |-> TRUE, cyc |-> activeResponse, ncycles |-> Len(cycles),
        id |-> lastMessage(St).id, parts |-> lastMessage(St).parts]
  ELSE stopText

StopStream ==
  Commit(Pump(stopStream(St)), "stopStream", sent, StopRecord)

\* transport.submitMessages resolves with the stream
TransportOpen(c) ==
  /\ cycles[c].pc = "awaitTransport"
  /\ ~cycles[c].aborted
  /\ Commit([St EXCEPT !.cycles[c].pc = "reading"], "transportOpen", sent, stopText)

\* transport.submitMessages fails before any event
TransportFail(c) ==
  /\ cycles[c].pc = "awaitTransport"
  /\ ~cycles[c].aborted
  /\ Commit(Pump([St EXCEPT !.cycles[c].pc = "settling",
                            !.cycles[c].pending = "TransportError"]),
            "transportFail", sent, stopText)

\* the aborted transport ends the request with an AbortError
AbortObserved(c) ==
  /\ cycles[c].pc \in {"awaitTransport", "reading"}
  /\ cycles[c].aborted
  /\ Commit(Pump([St EXCEPT !.cycles[c].pc = "settling",
                            !.cycles[c].pending = "AbortError"]),
            "abortObserved", sent, stopText)

RECURSIVE TotalEvents(_)
TotalEvents(cs) ==
  IF cs = <<>> THEN 0 ELSE Head(cs).nEvents + TotalEvents(Tail(cs))

\* Streams are finite: an event that ends the stream can always come, other
\* events while the bound allows.
CanYield(c, ev) ==
  /\ cycles[c].pc = "reading"
  /\ ~cycles[c].aborted
  /\ ev \in scope.events
  /\ (ev \in TerminalEvents \/ TotalEvents(cycles) < scope.maxEvents)

Count(ev) == IF ev \in TerminalEvents THEN 0 ELSE 1

\* the stream yields one event
StreamEvent(c, ev) ==
  /\ CanYield(c, ev)
  /\ Commit(Pump(runUpdateMessageJob([St EXCEPT !.cycles[c].nEvents = @ + Count(ev)], c, ev)),
            "streamEvent", IF scope.trace THEN sent \o ev.delta ELSE sent, stopText)

(* --------------------------- specification ------------------------------ *)
PendingTools(ids) ==
  <<UserMessage(1),
    Message(2, "assistant",
            [i \in 1..Len(ids) |-> ToolPart(ids[i], "input-available", 0)], 0)>>

InitialHistories == {<<>>, PendingTools(<<"t1">>)}

Scope(overlap, trace, toolIds, events, maxCycles, maxEvents, maxToolResults) ==
  [overlap |-> overlap, trace |-> trace, toolIds |-> toolIds, events |-> events,
   maxCycles |-> maxCycles, maxEvents |-> maxEvents, maxToolResults |-> maxToolResults]

NoPolicy ==
  [originalMaxToolInvocationStep |-> 0, originalMessageCount |-> 0,
   decided |-> FALSE, result |-> FALSE]

InitWith(histories, sc) ==
  /\ messages \in histories
  /\ scope = sc
  /\ status = "ready"
  /\ error = NoError
  /\ activeResponse = NoResponse
  /\ cycles = <<>>
  /\ queue = <<>>
  /\ running = 0
  /\ nextId = 3
  /\ maxSteps \in 1..MaxStepsBound
  /\ calls = 0
  /\ jobs = NoJobs
  /\ toolSubmitted = <<>>
  /\ toolApplied = <<>>
  /\ lastOp = "init"
  /\ sent = <<>>
  /\ stopText = NoStop
  /\ policy = NoPolicy

\* The events an orchestrator-level specification draws from: one of each
\* kind that the request cycle can tell apart.
OrchestratorEvents ==
  {ev \in EventsOver(Deltas, {"t1"}) :
     ev.type \notin {"tool-input-delta", "tool-output-error"}}

\* Any interleaving of the public operations and the transport's steps.
Init ==
  InitWith(InitialHistories,
           Scope(TRUE, FALSE, {"t1"}, OrchestratorEvents,
                 MaxCycles, MaxEvents, MaxToolResults))

Next ==
  \/ SubmitMessage
  \/ ResubmitLastUserMessage
  \/ ResumeStream
  \/ RemoveAssistantResponse
  \/ \E id \in ToolCallIds : AddToolResult(id)
  \/ StopStream
  \/ \E c \in 1..Len(cycles) : TransportOpen(c)
  \/ \E c \in 1..Len(cycles) : TransportFail(c)
  \/ \E c \in 1..Len(cycles) : AbortObserved(c)
  \/ \E c \in 1..Len(cycles) : \E ev \in Events : StreamEvent(c, ev)

Spec == Init /\ [][Next]_vars

\* The transport answers, aborted requests end, finite streams end.  Callers
\* owe nothing.
TransportFairness ==
  /\ WF_vars(\E c \in 1..Len(cycles) : TransportOpen(c) \/ TransportFail(c))
  /\ WF_vars(\E c \in 1..Len(cycles) : AbortObserved(c))
  /\ WF_vars(\E c \in 1..Len(cycles) : \E ev \in Events : StreamEvent(c, ev))

(* ---- the end-to-end scenario: one submitMessage, text deltas, finish ---- *)
TextEvents ==
  {ev \in EventsOver(ScenarioDeltas, {}) : ev.type \in {"text-delta", "finish"}}

E2EInit ==
  InitWith({<<>>}, Scope(FALSE, TRUE, {}, TextEvents, 1, MaxDeltas, 0))

E2ENext ==
  \/ SubmitMessage
  \/ \E c \in 1..Len(cycles) : TransportOpen(c)
  \/ \E c \in 1..Len(cycles) : \E ev \in Events : StreamEvent(c, ev)

E2ESpec == E2EInit /\ [][E2ENext]_vars

(* ---- callers that wait for the request in flight, and may stop it ------- *)
StopEvents ==
  {ev \in OrchestratorEvents :
     ev.type \in {"text-delta", "tool-output-available", "finish", "error"}}

StopInit ==
  InitWith(InitialHistories,
           Scope(FALSE, FALSE, {"t1"}, StopEvents, MaxStopCycles, MaxEvents, MaxToolResults))

StopNext ==
  \/ SubmitMessage
  \/ ResubmitLastUserMessage
  \/ ResumeStream
  \/ \E id \in ToolCallIds : AddToolResult(id)
  \/ StopStream
  \/ \E c \in 1..Len(cycles) : TransportOpen(c)
  \/ \E c \in 1..Len(cycles) : TransportFail(c)
  \/ \E c \in 1..Len(cycles) : AbortObserved(c)
  \/ \E c \in 1..Len(cycles) : \E ev \in Events : StreamEvent(c, ev)

StopSpec == StopInit /\ [][StopNext]_vars /\ TransportFairness

(* ---- every operation, with the last operation recorded ------------------ *)
OpInit ==
  InitWith(InitialHistories,
           Scope(TRUE, TRUE, {"t1"}, StopEvents, 1, 1, MaxToolResults))

OpSpec == OpInit /\ [][Next]_vars

(* ---- the executor under load: tool results and overlapping requests ----- *)
QueueEvents ==
  {ev \in OrchestratorEvents : ev.type \in {"text-delta", "finish", "error"}}

QueueInit ==
  InitWith({PendingTools(<<"t1">>)},
           Scope(TRUE, FALSE, ToolCallIds, QueueEvents, MaxCycles, 1, MaxQueuedResults))

QueueNext ==
  \/ SubmitMessage
  \/ \E id \in ToolCallIds : AddToolResult(id)
  \/ StopStream
  \/ \E c \in 1..Len(cycles) : TransportOpen(c)
  \/ \E c \in 1..Len(cycles) : TransportFail(c)
  \/ \E c \in 1..Len(cycles) : AbortObserved(c)
  \/ \E c \in 1..Len(cycles) : \E ev \in Events : StreamEvent(c, ev)

QueueSpec == QueueInit /\ [][QueueNext]_vars

(* ---- tool results supplied to a settled chat ---------------------------- *)
ToolInit ==
  InitWith({PendingTools(<<"t1">>), PendingTools(<<"t1", "t2">>)},
           Scope(FALSE, FALSE, ToolCallIds, OrchestratorEvents,
                 MaxCycles, 1, MaxQueuedResults))

ToolNext ==
  \/ \E id \in ToolCallIds : AddToolResult(id)
  \/ StopStream
  \/ \E c \in 1..Len(cycles) : TransportOpen(c)
  \/ \E c \in 1..Len(cycles) : TransportFail(c)
  \/ \E c \in 1..Len(cycles) : AbortObserved(c)
  \/ \E c \in 1..Len(cycles) : \E ev \in Events : StreamEvent(c, ev)

ToolSpec == ToolInit /\ [][ToolNext]_vars

(* ---- the tool loop with a transport that never fails -------------------- *)
LoopEvents ==
  {ev \in EventsOver(Deltas, ToolCallIds) :
     ev.type \in {"text-delta", "start-step", "tool-output-available", "finish"}}

LoopInit ==
  InitWith({<<>>, PendingTools(<<"t1">>)},
           Scope(FALSE, FALSE, {"t1"}, LoopEvents, MaxCycles + 1, MaxEvents, MaxToolResults))

LoopNext ==
  \/ SubmitMessage
  \/ \E id \in ToolCallIds : AddToolResult(id)
  \/ \E c \in 1..Len(cycles) : TransportOpen(c)
  \/ \E c \in 1..Len(cycles) : \E ev \in Events : StreamEvent(c, ev)

LoopSpec ==
  /\ LoopInit
  /\ [][LoopNext]_vars
  /\ WF_vars(\E c \in 1..Len(cycles) : TransportOpen(c))
  /\ WF_vars(\E c \in 1..Len(cycles) : \E ev \in Events : StreamEvent(c, ev))

(* ---- every operation, by callers that wait for the request in flight ---- *)
SeqInit ==
  InitWith(InitialHistories,
           Scope(FALSE, FALSE, {"t1"}, OrchestratorEvents,
                 MaxCycles, MaxEvents, MaxToolResults))

SeqSpec == SeqInit /\ [][Next]_vars

(* ---- tool results supplied while the request is in flight --------------- *)
DeferEvents ==
  {ev \in EventsOver(Deltas, {"t1"}) :
     ev.type \in {"tool-input-start", "start-step", "finish", "error"}}

DeferInit ==
  InitWith({<<>>},
           Scope(FALSE, FALSE, {"t1"}, DeferEvents, MaxCycles, MaxEvents, MaxToolResults))

\* addToolResult called while the request is ongoing (lines 229-235 return)
AddToolResultMidStream(id) ==
  /\ status \in {"submitted", "streaming"}
  /\ AddToolResult(id)

DeferNext ==
  \/ SubmitMessage
  \/ \E id \in ToolCallIds : AddToolResultMidStream(id)
  \/ \E c \in 1..Len(cycles) : TransportOpen(c)
  \/ \E c \in 1..Len(cycles) : TransportFail(c)
  \/ \E c \in 1..Len(cycles) : \E ev \in Events : StreamEvent(c, ev)

DeferSpec == DeferInit /\ [][DeferNext]_vars

(* ---- resumed streams and the requests that continue them ---------------- *)
ResumeEvents ==
  {ev \in EventsOver(Deltas, {"t1"}) :
     ev.type \in {"start-step", "tool-output-available", "finish", "error"}}

ResumeInit ==
  InitWith(InitialHistories,
           Scope(FALSE, FALSE, {"t1"}, ResumeEvents, MaxCycles, MaxEvents, MaxToolResults))

ResumeNext ==
  \/ SubmitMessage
  \/ ResumeStream
  \/ \E c \in 1..Len(cycles) : TransportOpen(c)
  \/ \E c \in 1..Len(cycles) : TransportFail(c)
  \/ \E c \in 1..Len(cycles) : \E ev \in Events : StreamEvent(c, ev)

ResumeSpec == ResumeInit /\ [][ResumeNext]_vars

(* ---- streams that break the protocol ------------------------------------ *)
ProtocolEvents ==
  {Ev("start-step", <<>>, ""), Ev("tool-output-available", <<>>, "t1"),
   Ev("tool-input-start", <<>>, "t2"), Ev("tool-input-delta", <<>>, "t2"),
   Ev("finish", <<>>, "")}

ProtocolInit ==
  InitWith({<<>>},
           Scope(FALSE, FALSE, {}, ProtocolEvents, MaxCycles, MaxEvents + 1, 0))

ProtocolNext ==
  \/ SubmitMessage
  \/ \E c \in 1..Len(cycles) : TransportOpen(c)
  \/ \E c \in 1..Len(cycles) : \E ev \in Events : StreamEvent(c, ev)

ProtocolSpec == ProtocolInit /\ [][ProtocolNext]_vars

(* ---- one submitMessage and the requests that continue it ---------------- *)
ChainInit ==
  InitWith(InitialHistories,
           Scope(FALSE, FALSE, {"t1"}, OrchestratorEvents, MaxCycles + 1, MaxEvents, 0))

\* the one call of submitMessage, on a chat in status ready
SubmitOnce ==
  /\ cycles = <<>>
  /\ status = "ready"
  /\ SubmitMessage

ChainNext ==
  \/ SubmitOnce
  \/ \E c \in 1..Len(cycles) : TransportOpen(c)
  \/ \E c \in 1..Len(cycles) : TransportFail(c)
  \/ \E c \in 1..Len(cycles) : \E ev \in Events : StreamEvent(c, ev)

ChainSpec == ChainInit /\ [][ChainNext]_vars /\ TransportFairness

(* ---- the operations that change the list, by callers that do not wait --- *)
ListInit ==
  InitWith(InitialHistories,
           Scope(TRUE, FALSE, {"t1"}, QueueEvents, MaxCycles, MaxEvents, MaxToolResults))

ListNext ==
  \/ SubmitMessage
  \/ ResubmitLastUserMessage
  \/ RemoveAssistantResponse
  \/ \E id \in ToolCallIds : AddToolResult(id)
  \/ \E c \in 1..Len(cycles) : TransportOpen(c)
  \/ \E c \in 1..Len(cycles) : \E ev \in Events : StreamEvent(c, ev)

ListSpec == ListInit /\ [][ListNext]_vars

(* ---- requests that the caller stops, in the middle of a tool loop -------- *)
CancelEvents ==
  {ev \in EventsOver(Deltas, {"t1"}) :
     ev.type \in {"start-step", "tool-output-available", "finish"}}

CancelInit ==
  InitWith(InitialHistories,
           Scope(FALSE, FALSE, {"t1"}, CancelEvents, MaxCycles, MaxEvents, 0))

CancelNext ==
  \/ SubmitMessage
  \/ StopStream
  \/ \E c \in 1..Len(cycles) : TransportOpen(c)
  \/ \E c \in 1..Len(cycles) : AbortObserved(c)
  \/ \E c \in 1..Len(cycles) : \E ev \in Events : StreamEvent(c, ev)

CancelSpec == CancelInit /\ [][CancelNext]_vars

(* ---- the merger fed with every kind of event, on fresh and resumed drafts *)
MergeInit ==
  InitWith(InitialHistories,
           Scope(FALSE, FALSE, {}, EventsOver(Deltas, ToolCallIds),
                 MaxStopCycles, MaxEvents, 0))

MergeNext ==
  \/ SubmitMessage
  \/ ResumeStream
  \/ \E c \in 1..Len(cycles) : TransportOpen(c)
  \/ \E c \in 1..Len(cycles) : \E ev \in Events : StreamEvent(c, ev)

MergeSpec == MergeInit /\ [][MergeNext]_vars

(* ---- the Resubmission Policy called on arbitrary arguments -------------- *)
PolicyParts(id) ==
  {TextPart(<<"a">>)}
  \cup {ToolPart(id, st, step) :
          st \in {"input-available", "output-available", "output-error"},
          step \in 0..MaxPolicySteps}

PolicyMessages ==
  {<<>>, <<UserMessage(1)>>}
  \cup {<<UserMessage(1), Message(2, "assistant", <<p>>, 0)>> : p \in PolicyParts("t1")}
  \cup {<<UserMessage(1), Message(2, "assistant", <<p, q>>, 0)>> :
          p \in PolicyParts("t1"), q \in PolicyParts("t2")}
  \cup {<<UserMessage(1), Message(2, "assistant", <<p>>, 0), UserMessage(3)>> :
          p \in PolicyParts("t1")}

PolicyInit ==
  /\ messages \in PolicyMessages
  /\ scope = Scope(FALSE, FALSE, {}, {}, 0, 0, 0)
  /\ status = "ready"
  /\ error = NoError
  /\ activeResponse = NoResponse
  /\ cycles = <<>>
  /\ queue = <<>>
  /\ running = 0
  /\ nextId = 4
  /\ maxSteps \in 1..MaxStepsBound
  /\ calls = 0
  /\ jobs = NoJobs
  /\ toolSubmitted = <<>>
  /\ toolApplied = <<>>
  /\ lastOp = "init"
  /\ sent = <<>>
  /\ stopText = NoStop
  /\ policy \in [originalMaxToolInvocationStep : 0..MaxPolicySteps,
                 originalMessageCount : 0..MaxPolicyCount,
                 decided : {FALSE}, result : {FALSE}]

\* the call of lines 364-371, on its own
Decide ==
  /\ ~policy.decided
  /\ policy' = [policy EXCEPT
                  !.decided = TRUE,
                  !.result = shouldResubmitMessages(policy.originalMaxToolInvocationStep,
                                                    policy.originalMessageCount,
                                                    maxSteps, messages)]
  /\ UNCHANGED <<messages, status, error, activeResponse, cycles, queue, running,
                 nextId, maxSteps, scope, calls, jobs, toolSubmitted, toolApplied,
                 lastOp, sent, stopText>>

PolicyNext == Decide

PolicySpec == PolicyInit /\ [][PolicyNext]_vars

(* ======================== the claims =================================== *)
Done(c) == c <= Len(cycles) /\ cycles[c].pc = "done"

RECURSIVE TextOf(_)
TextOf(parts) ==
  IF parts = <<>> THEN <<>>
  ELSE (IF Head(parts).type = "text" THEN <<Head(parts).text>> ELSE <<>>)
       \o TextOf(Tail(parts))

UserThenAssistantWith(text) ==
  /\ Len(messages) = 2
  /\ messages[1].role = "user"
  /\ messages[2].role = "assistant"
  /\ Len(messages[2].parts) = 1
  /\ messages[2].parts[1].type = "text"
  /\ messages[2].parts[1].text = text

\* C1 as stated: after submitMessage on an empty chat and any finite sequence
\* of text deltas followed by finish, the chat holds the user message and one
\* assistant message whose single text part is the concatenation of the
\* deltas, and the status is ready.
C1_AnySequence ==
  Done(1) => UserThenAssistantWith(sent) /\ status = "ready"

\* C1, amended: the same for every sequence of at least one text delta; with
\* no delta before finish nothing is published and the chat holds the user
\* message alone.  In both cases the status is ready.
C1_NonEmptySequence ==
  Done(1) =>
    /\ status = "ready"
    /\ error = NoError
    /\ cycles[1].nEvents >= 1 => UserThenAssistantWith(sent)
    /\ cycles[1].nEvents = 0 => Len(messages) = 1 /\ messages[1].role = "user"

C1_Witness ==
  /\ Done(1)
  /\ cycles[1].nEvents >= 2
  /\ sent = <<"a", "b", "c">>
  /\ UserThenAssistantWith(sent)

StopCase == stopText.set /\ Len(cycles) = stopText.ncycles

Retained ==
  \E i \in 1..Len(messages) :
    /\ messages[i].id = stopText.id
    /\ messages[i].role = "assistant"
    /\ TextOf(messages[i].parts) = TextOf(stopText.parts)

StopSettled ==
  /\ StopCase
  /\ cycles[stopText.cyc].pc = "done"
  /\ status = "ready"
  /\ error = NoError
  /\ Retained

\* C2: once stopStream aborts a streaming request whose published draft holds
\* text, the status becomes ready, and from the stop on the assistant message
\* keeps that text and no error is set.
C2_StopKeepsText ==
  /\ StopCase ~> StopSettled
  /\ [](StopCase => error = NoError /\ Retained /\ status \in {"streaming", "ready"})

C2_Witness == StopSettled /\ TextOf(stopText.parts) # <<>>

\* C3: a stopStream call while the status is ready or error changes neither
\* status, messages, error nor the active response, and aborts no request.
C3_StopIsNoOp ==
  [][(lastOp' = "stopStream" /\ status \notin {"submitted", "streaming"})
       => UNCHANGED <<status, messages, error, activeResponse, cycles, queue, running>>]_vars

C3_Witness ==
  /\ lastOp = "stopStream"
  /\ status = "error"
  /\ error # NoError
  /\ messages # <<>>

\* C4: no job of the executor starts while another job is executing.
C4_OneJobAtATime ==
  /\ jobs.concurrent = {}
  /\ Cardinality(jobs.executing) <= 1

C4_Witness ==
  /\ running # 0
  /\ Len(queue) >= 2
  /\ \E i \in 1..Len(queue) : queue[i].kind = "chunk"
  /\ \E i \in 1..Len(queue) : queue[i].kind = "tool"

\* C5: jobs start in the order of their run() calls: when a job starts, every
\* job submitted before it has completed.
C5_SubmissionOrder ==
  /\ jobs.early = {}
  /\ \A j \in jobs.started : \A k \in 1..j : k \in jobs.started

C5_Witness ==
  /\ Cardinality(jobs.waited \cap jobs.started) >= 2
  /\ queue = <<>>

\* C6: a failing job fails the request cycle that submitted it and no other,
\* and the jobs queued behind it are kept and executed.
C6_FailureIsLocal ==
  /\ \A f \in jobs.failed :
       /\ cycles[f.caller].outcome = "error"
       /\ f.behind \subseteq (jobs.started \cup QueuedSeqs(queue))
       /\ running = 0 => f.behind \subseteq jobs.started
  /\ \A c \in 1..Len(cycles) :
       cycles[c].outcome = "error" =>
         \/ cycles[c].pending = "TransportError"
         \/ \E f \in jobs.failed : f.caller = c

C6_Witness ==
  \E f \in jobs.failed : f.behind # {} /\ f.behind \subseteq jobs.started

HasResult(m, id) ==
  \A i \in 1..Len(m.parts) :
    (IsTool(m.parts[i]) /\ m.parts[i].toolCallId = id) => Terminal(m.parts[i])

\* C7: tool results are patched in in the order addToolResult was called, and
\* every result patched in is present in the last assistant message.
C7_ToolResultsInOrder ==
  /\ Len(toolApplied) <= Len(toolSubmitted)
  /\ toolApplied = SubSeq(toolSubmitted, 1, Len(toolApplied))
  /\ \A i \in 1..Len(toolApplied) : HasResult(lastMessage(St), toolApplied[i])

C7_Witness ==
  /\ Len(toolApplied) >= 2
  /\ toolApplied[1] # toolApplied[2]
  /\ Len(getToolInvocations(lastMessage(St))) = 2
  /\ isAssistantMessageWithCompletedToolCalls(lastMessage(St))

ToolRequest(c) == cycles[c].origin = "toolResult"

\* C8 as stated: the request addToolResult triggers runs to completion: its
\* stream is merged and the status returns to ready.
C8_SecondRequestCompletes ==
  (\E c \in 1..Len(cycles) : ToolRequest(c))
    ~> (\E c \in 1..Len(cycles) : ToolRequest(c) /\ cycles[c].outcome = "success")

\* The state C8's behaviour ends in: the request's stream event waits behind
\* the addToolResult job, which awaits the request.  No step leaves it.
Stuck(c) ==
  /\ c <= Len(cycles)
  /\ ToolRequest(c)
  /\ cycles[c].pc = "queued"
  /\ running = cycles[c].inJob

StuckForever == [][\A c \in 1..Len(cycles) : Stuck(c) => Stuck(c)']_vars

\* C9 as stated: a request the orchestrator starts on its own follows a
\* request that succeeded, never one that failed.
C9_NoAutoRetry ==
  \A c \in 1..Len(cycles) :
    cycles[c].origin = "recursion" => cycles[cycles[c].parent].outcome = "success"

\* C10 as stated: the transport is called at most maxSteps times between two
\* requests of the caller.
C10_AtMostMaxSteps ==
  /\ calls <= maxSteps
  /\ maxSteps = DefaultMaxSteps => calls <= 1

Children(p) == {c \in 1..Len(cycles) : cycles[c].origin = "recursion" /\ cycles[c].parent = p}

StepOfLast == extractMaxToolInvocationStep(getToolInvocations(lastMessage(St)))

\* C11: a request cycle recurses only after a response that changed the step
\* count of the last message: no recursion follows a response that left the
\* message count and the step count as they were, complete tool calls or not.
C11_NoRecursionOnNoOp ==
  \A c \in 1..Len(cycles) :
    cycles[c].origin = "recursion" =>
      ~(/\ cycles[c].messageCount = cycles[cycles[c].parent].messageCount
        /\ cycles[c].maxStep = cycles[cycles[c].parent].maxStep)

C11_Witness ==
  \E p \in 1..Len(cycles) :
    /\ cycles[p].outcome = "success"
    /\ Children(p) = {}
    /\ p = Len(cycles)
    /\ Len(messages) = cycles[p].messageCount
    /\ StepOfLast = cycles[p].maxStep
    /\ isAssistantMessageWithCompletedToolCalls(lastMessage(St))
    /\ StepOfLast < maxSteps

LastIsAssistant == messages # <<>> /\ messages[Len(messages)].role = "assistant"

ToolsOfLast ==
  {i \in 1..Len(lastMessage(St).parts) : lastMessage(St).parts[i].type = "tool-invocation"}

EveryToolTerminal ==
  \A i \in ToolsOfLast :
    lastMessage(St).parts[i].state \in {"output-available", "output-error"}

NewStep ==
  IF ToolsOfLast = {} THEN 0
  ELSE CHOOSE n \in 0..(MaxPolicySteps + 1) :
         /\ \E i \in ToolsOfLast : lastMessage(St).parts[i].step = n
         /\ \A i \in ToolsOfLast : lastMessage(St).parts[i].step <= n

AllFourHold ==
  /\ LastIsAssistant
  /\ EveryToolTerminal
  /\ NewStep > policy.originalMaxToolInvocationStep
  /\ NewStep < maxSteps

\* C12: the Resubmission Policy returns true exactly when the last message is
\* from the assistant, every tool invocation in it is terminal, the step count
\* is above the one recorded before, and it is below maxSteps; the call
\* changes nothing but its result.
C12_PolicyIsConjunction ==
  policy.decided => (policy.result <=> AllFourHold)

C12_Witness ==
  /\ policy.decided
  /\ policy.result
  /\ Cardinality(ToolsOfLast) = 2
  /\ \E i \in ToolsOfLast : lastMessage(St).parts[i].state = "output-error"

\* C13: removeAssistantResponse throws when the chat is empty or its last
\* message is not from the assistant, and then changes nothing; otherwise it
\* removes the last message and nothing else, and starts no request.
C13_RemoveAssistantResponse ==
  [][/\ lastOp' = "removeAssistantResponse-threw" =>
          /\ LastIsAssistant = FALSE
          /\ UNCHANGED <<messages, status, error, activeResponse, cycles, calls, queue>>
     /\ lastOp' = "removeAssistantResponse" =>
          /\ LastIsAssistant
          /\ messages' = SubSeq(messages, 1, Len(messages) - 1)
          /\ UNCHANGED <<status, error, activeResponse, cycles, calls, queue>>]_vars

C13_Witness ==
  /\ lastOp = "removeAssistantResponse"
  /\ Len(messages) >= 1
  /\ messages[Len(messages)].role = "user"

Unsettled == {c \in 1..Len(cycles) : cycles[c].pc # "done"}

\* C14 as stated: at most one request cycle is unsettled at a time, and while
\* the chat state holds an active response the status is submitted or
\* streaming.
C14_OneActiveResponse ==
  /\ Cardinality(Unsettled) <= 1
  /\ activeResponse # NoResponse => status \in {"submitted", "streaming"}

\* C15 as stated: every step that changes the message list does so in a job
\* of the executor that starts in that step, and no step changes the list
\* while a job is in progress.
C15_MutationsInsideJobs ==
  [][messages' # messages => (jobs'.started # jobs.started /\ running = 0)]_vars

Fails(c) == cycles[c].outcome = "pending" /\ cycles'[c].outcome = "error"

\* C16 as stated: the step in which a request cycle fails with an error other
\* than a cancellation leaves the status error with that error attached and
\* no active response, and keeps every published message as it was.
C16_FailureSetsError ==
  [][\A c \in 1..Len(cycles) :
       Fails(c) =>
         /\ status' = "error"
         /\ error' = cycles'[c].pending
         /\ activeResponse' = NoResponse
         /\ messages' = messages]_vars

\* C17: addToolResult called while the status is submitted or streaming patches
\* the result into the last message and starts no request; when that request's
\* stream then settles and the last assistant message has a result for every
\* tool invocation, a new request is fired.
Settles(c) ==
  /\ cycles[c].pc # "done"
  /\ cycles'[c].pc = "done"
  /\ cycles'[c].outcome = "success"

C17_DeferredCheckFires ==
  [][/\ (toolSubmitted' # toolSubmitted /\ status \in {"submitted", "streaming"}) =>
          /\ Len(cycles') = Len(cycles)
          /\ toolApplied' = toolSubmitted'
          /\ \A i \in 1..Len(lastMessage(St).parts) :
                (/\ IsTool(lastMessage(St).parts[i])
                 /\ lastMessage(St).parts[i].toolCallId = toolSubmitted'[Len(toolSubmitted')])
                => Terminal(messages'[Len(messages')].parts[i])
     /\ \A c \in 1..Len(cycles) :
          (/\ Settles(c)
           /\ toolApplied # <<>>
           /\ messages' # <<>>
           /\ isAssistantMessageWithCompletedToolCalls(messages'[Len(messages')]))
          => Len(cycles') > Len(cycles)]_vars

\* C18: resubmitLastUserMessage on an empty chat changes nothing and calls no
\* transport; on a non-empty chat it removes the last message exactly when that
\* message is from the assistant, and then starts exactly one request cycle,
\* with requestType generate, on the list as it is after the removal.
C18_ResubmitLastUserMessage ==
  [][lastOp' = "resubmitLastUserMessage" =>
       IF messages = <<>>
       THEN UNCHANGED <<messages, status, error, activeResponse, cycles, calls, queue>>
       ELSE /\ messages' = IF LastIsAssistant
                           THEN SubSeq(messages, 1, Len(messages) - 1)
                           ELSE messages
            /\ Len(cycles') = Len(cycles) + 1
            /\ cycles'[Len(cycles')].requestType = "generate"
            /\ cycles'[Len(cycles')].origin = "resubmit"
            /\ cycles'[Len(cycles')].messageCount = Len(messages')
            /\ calls' = 1]_vars

\* the last message was from the assistant: it is gone and one request runs
C18_Witness ==
  /\ lastOp = "resubmitLastUserMessage"
  /\ messages = <<UserMessage(1)>>
  /\ Len(cycles) = 1
  /\ cycles[1].requestType = "generate"
  /\ cycles[1].messageCount = 1

\* C19: resumeStream leaves the message list as it is and calls the transport
\* with requestType resume on that list; a request that auto-continues a
\* resume request has requestType resume too, and the step that starts it
\* appends no message.
Started == {c \in 1..Len(cycles') : c > Len(cycles)}

C19_ResumeKeepsList ==
  [][\A c \in Started :
       /\ cycles'[c].origin = "resume" =>
            /\ messages' = messages
            /\ cycles'[c].requestType = "resume"
            /\ cycles'[c].messageCount = Len(messages)
       /\ (/\ cycles'[c].origin = "recursion"
           /\ cycles'[cycles'[c].parent].requestType = "resume") =>
            /\ messages' = messages
            /\ cycles'[c].requestType = "resume"
            /\ cycles'[c].messageCount = Len(messages)]_vars

\* a resume request was continued automatically
C19_Witness ==
  \E c \in 1..Len(cycles) :
    /\ cycles[c].origin = "recursion"
    /\ cycles[c].requestType = "resume"
    /\ cycles[cycles[c].parent].origin = "resume"

\* C20: a tool-input-delta event for a toolCallId that no tool-input-start of
\* the stream introduced fails the merge with a protocol error and leaves the
\* draft, the toolCallId index, the step counter and the published list as
\* they were; the request cycle ends and the status is error.
UnknownDelta(c) ==
  /\ cycles[c].pending = NoError
  /\ cycles'[c].pending = "ProtocolError"
  /\ \E ev \in scope.events :
       /\ ev.type = "tool-input-delta"
       /\ cycles[c].state.toolIdx[ev.toolCallId] = 0

C20_UnknownDeltaFails ==
  [][\A c \in 1..Len(cycles) :
       UnknownDelta(c) =>
         /\ cycles'[c].state = cycles[c].state
         /\ messages' = messages
         /\ cycles'[c].pc = "done"
         /\ cycles'[c].outcome = "error"
         /\ status' = "error"
         /\ error' = "ProtocolError"]_vars

\* C21: every change of the status follows the state machine: submitted is
\* entered from ready or error only, streaming from submitted only, ready and
\* error from submitted or streaming only.  A step in which a request cycle
\* ran to its end passes through ready or error on the way.
SettledInStep ==
  \E c \in 1..Len(cycles) : cycles[c].pc # "done" /\ cycles'[c].pc = "done"

C21_StatusMachine ==
  [][status' # status =>
       /\ status' = "submitted" => (status \in {"ready", "error"} \/ SettledInStep)
       /\ status' = "streaming" => status = "submitted"
       /\ status' \in {"ready", "error"} => status \in {"submitted", "streaming"}]_vars

\* C22: with a transport that answers and streams that end, a submitMessage
\* call on a chat in status ready settles: it starts at most maxSteps request
\* cycles, and the chat comes to rest in status ready or error with no active
\* response.
AtRest ==
  /\ Idle
  /\ status \in {"ready", "error"}
  /\ activeResponse = NoResponse

C22_SubmitSettles ==
  /\ [](Len(cycles) <= maxSteps)
  /\ (cycles # <<>>) ~> AtRest

\* the request was continued once and the chain came to rest
C22_Witness ==
  /\ Len(cycles) = 2
  /\ cycles[2].origin = "recursion"
  /\ AtRest

\* C23: in a request cycle that no other operation interleaves with, a publish
\* either replaces the last message, whose id is the draft's, or appends the
\* draft when the list is as long as it was when the cycle began: the cycle
\* adds at most one message and changes no message but the last.
InFlight == {c \in 1..Len(cycles) : cycles[c].pc # "done"}

SameButLast(old, new) ==
  /\ Len(new) = Len(old)
  /\ old # <<>>
  /\ SubSeq(new, 1, Len(new) - 1) = SubSeq(old, 1, Len(old) - 1)
  /\ new[Len(new)].id = old[Len(old)].id

Publish(c) ==
  \/ messages' = messages
  \/ /\ SameButLast(messages, messages')
     /\ messages[Len(messages)].id = cycles[c].state.message.id
  \/ /\ Len(messages) = cycles[c].messageCount
     /\ lastMessage(St).id # cycles[c].state.message.id
     /\ messages' = Append(messages, messages'[Len(messages')])
     /\ messages'[Len(messages')].id = cycles[c].state.message.id

C23_PublishTouchesLastOnly ==
  /\ [](\A c \in InFlight :
          /\ Len(messages) \in {cycles[c].messageCount, cycles[c].messageCount + 1}
          /\ Len(messages) = cycles[c].messageCount + 1 =>
               lastMessage(St).id = cycles[c].state.message.id)
  /\ [][\A c \in InFlight : Publish(c)]_vars

\* a cycle appended its draft and then replaced it; another replaced the
\* message it found
C23_Witness ==
  /\ Len(cycles) = 2
  /\ Len(messages) = cycles[1].messageCount + 1
  /\ Len(lastMessage(St).parts) >= 2
  /\ cycles[2].messageCount = Len(messages)
  /\ cycles[2].nEvents >= 1

\* C24: no two messages of the list have the same id (the id generator never
\* repeats an id).
C24_UniqueIds ==
  \A i, j \in 1..Len(messages) : i # j => messages[i].id # messages[j].id

Cancelled(c) == cycles[c].outcome = "pending" /\ cycles'[c].outcome = "abort"

C26_NoFollowUpAfterCancel ==
  /\ [](\A c \in 1..Len(cycles) : cycles[c].outcome = "abort" => Children(c) = {})
  /\ [][\A c \in 1..Len(cycles) :
          Cancelled(c) =>
            /\ status' = "ready"
            /\ error' = NoError
            /\ activeResponse' = NoResponse
            /\ Len(cycles') = Len(cycles)]_vars

\* the cancelled request left a message the policy would continue
C26_Witness ==
  /\ cycles # <<>>
  /\ cycles[Len(cycles)].outcome = "abort"
  /\ shouldResubmitMessages(cycles[Len(cycles)].maxStep, cycles[Len(cycles)].messageCount,
                            maxSteps, messages)

\* C27: an error is attached only while the status is error; a request
\* started after a failure leaves no error behind.
C27_ErrorOnlyInErrorStatus == error # NoError => status = "error"

\* a request is in flight after an earlier request failed
C27_Witness ==
  /\ status \in {"submitted", "streaming"}
  /\ error = NoError
  /\ Len(cycles) >= 2
  /\ cycles[1].outcome = "error"
  /\ cycles[2].origin # "recursion"
  /\ cycles[2].outcome = "pending"

\* C28: in the accumulator of every request cycle, each toolCallId of the
\* index maps to a position of the draft's parts that holds the tool
\* invocation with that toolCallId, and no two parts of the draft are tool
\* invocations with the same toolCallId.
PartsOf(c, id) ==
  {i \in 1..Len(cycles[c].state.message.parts) :
     /\ IsTool(cycles[c].state.message.parts[i])
     /\ cycles[c].state.message.parts[i].toolCallId = id}

====
